---- MODULE Spec2Model ----
(***************************************************************************)
(* A model of qttestgui.py: the Resolver (object paths, event records,     *)
(* enum and flag names), the EventRecorder event filter and main().        *)
(*                                                                         *)
(* Objects are numbered in creation order.  Object 0 is the QApplication   *)
(* instance (qApp); None is Python's None.  A Python call either returns a *)
(* value or raises: results that can raise are records [exc, val] whose    *)
(* exc field is "" for a normal return and the exception class otherwise.  *)
(***************************************************************************)
EXTENDS Integers, Sequences, FiniteSets, TLC

\* ----------------------------------------------------------------- bounds
\* The number of objects the application creates besides qApp.
MaxObj == 3
\* The number of events dispatched while the application runs.
MaxEvents == 2
\* The number of entries of a replayed scenario.
MaxScenario == 2

\* --------------------------------------------------------------- constants
None == -1
qApp == 0

\* The classes of the objects of the model.  QWidget and QTimer derive from
\* QObject; only a widget can be a window or the child of a widget's
\* widget slot, and a widget's parent is always a widget.
WidgetTypes == {"QWidget"}
ObjectTypes == {"QObject", "QTimer"}
Types == WidgetTypes \cup ObjectTypes
Names == {"", "a"}

\* Qt's QMetaObject::cast, used by QObject.findChild: t is base or derives
\* from it.
Inherits(t, base) == t = base \/ base = "QObject"

VARIABLES
    type,             \* type(obj): the class name of each object
    parent,           \* obj.parent()
    children,         \* obj.children(), in creation order
    objectName,       \* obj.objectName()
    topLevelWidgets,  \* QtGui.qApp.topLevelWidgets()
    FUZZY_MATCHING,   \* Resolver.FUZZY_MATCHING
    resolved,         \* the last serialize_object / deserialize_object call
    flagsCall,        \* the last Resolver._qflags_key call
    log,              \* EventRecorder.log
    call,             \* the last EventRecorder.eventFilter call
    delivered,        \* the number of events dispatched so far
    pc,               \* where main() (or the replay) is
    file,             \* what has been written to the scenario file
    scenario,         \* the scenario being replayed
    position,         \* the number of its entries replayed so far
    sent              \* the qApp.sendEvent calls made, in order

treeVars == <<type, parent, children, objectName, topLevelWidgets>>
recorderVars == <<log, call, delivered, pc, file>>
replayVars == <<scenario, position, sent>>
vars == <<type, parent, children, objectName, topLevelWidgets,
          FUZZY_MATCHING, resolved, flagsCall, log, call, delivered, pc,
          file, scenario, position, sent>>

Objects == DOMAIN type
NumObj == Cardinality(Objects) - 1

Ok(v) == [exc |-> "", val |-> v]
Raise(e) == [exc |-> e, val |-> None]

\* A local variable: the value is computed once and the body reads it.
Bind(v, Body(_)) == Body(v)
Bind2(v, w, Body(_, _)) == Body(v, w)

PathElement(index, t, name) == [index |-> index, type |-> t, name |-> name]

\* ---------------------------------------------------------------- Resolver
filtertype(target_type, iterable) ==
    SelectSeq(iterable, LAMBDA i : type[i] = target_type)

\* The 0-based position of obj in lst (list.index), a ValueError when obj
\* is not in lst.
ListIndex(lst, obj) ==
    IF \E k \in 1..Len(lst) : lst[k] = obj
    THEN Ok((CHOOSE k \in 1..Len(lst) :
                 lst[k] = obj /\ \A j \in 1..(k - 1) : lst[j] # obj) - 1)
    ELSE Raise("ValueError")

\* A serializer that ranks obj among all its siblings, whatever their type.
_index_by_type_any(lst, obj) == ListIndex(lst, obj)

_index_by_type(lst, obj) == ListIndex(filtertype(type[obj], lst), obj)

\* The generator of serialize_object, leaf first: the elements yielded, and
\* the exception (if any) that ends it.
RECURSIVE _canonical_path(_)
_canonical_path(obj) ==
    IF parent[obj] # None
    THEN Bind2(_index_by_type(children[parent[obj]], obj),
               _canonical_path(parent[obj]),
               LAMBDA here, rest :
                 IF here.exc # "" THEN Raise(here.exc)
                 ELSE IF rest.exc # "" THEN Raise(rest.exc)
                 ELSE Ok(<<PathElement(here.val, type[obj],
                                       objectName[obj])>> \o rest.val))
    ELSE Bind(_index_by_type(topLevelWidgets, obj),
              LAMBDA here :
                IF here.exc # "" THEN Raise(here.exc)
                ELSE Ok(<<PathElement(here.val, type[obj],
                                      objectName[obj])>>))

Reversed(s) == [k \in 1..Len(s) |-> s[Len(s) + 1 - k]]

serialize_object(obj) ==
    Bind(_canonical_path(obj),
         LAMBDA p : IF p.exc # "" THEN Raise(p.exc) ELSE Ok(Reversed(p.val)))

\* The first element of a sequence of results that is an object, None when
\* there is none: the loops "for c in ...: obj = f(c); if obj: return obj".
RECURSIVE FirstFound(_)
FirstFound(results) ==
    IF results = <<>> THEN None
    ELSE IF Head(results) # None THEN Head(results)
    ELSE FirstFound(Tail(results))

\* QObject.findChild(type, name): the direct children first, then each
\* child's subtree, in children() order; the class is matched by
\* inheritance.
RECURSIVE findChild(_, _, _)
findChild(obj, t, name) ==
    LET kids == children[obj]
        direct == SelectSeq(kids, LAMBDA c :
                      Inherits(type[c], t) /\ objectName[c] = name)
    IN  IF direct # <<>> THEN Head(direct)
        ELSE FirstFound([k \in 1..Len(kids) |-> findChild(kids[k], t, name)])

RECURSIVE get_candidates(_, _, _)
get_candidates(path, widget, i) ==
    IF ~(type[widget] = path[i + 1].type
         /\ (path[i + 1].name = "" \/ path[i + 1].name = objectName[widget]))
    THEN None
    ELSE IF i = Len(path) - 1 THEN widget
    ELSE LET target == path[i + 2]
             same == filtertype(target.type, children[widget])
         IN  IF ~FUZZY_MATCHING
             THEN IF target.index >= Len(same) THEN None
                  ELSE get_candidates(path, same[target.index + 1], i + 1)
             ELSE FirstFound([k \in 1..Len(children[widget]) |->
                      get_candidates(path, children[widget][k], i + 1)])

\* A resolver that tries every window of the root's type, whatever the
\* root's index.
Positional_any(path) ==
    FirstFound([k \in 1..Len(filtertype(path[1].type, topLevelWidgets)) |->
        get_candidates(path, filtertype(path[1].type, topLevelWidgets)[k],
                       0)])

\* The positional part of deserialize_object (the code after the name
\* lookup).
Positional(path) ==
    LET target == path[1]
        same == filtertype(target.type, topLevelWidgets)
    IN  IF ~FUZZY_MATCHING
        THEN IF target.index >= Len(same) THEN None
             ELSE get_candidates(path, same[target.index + 1], 0)
        ELSE FirstFound([k \in 1..Len(topLevelWidgets) |->
                 get_candidates(path, topLevelWidgets[k], 0)])

\* The name lookup of deserialize_object: the object found by name, None
\* when the target has no name or nothing is found.
ByName(path) ==
    LET target == path[Len(path)]
    IN  IF target.name # "" THEN findChild(qApp, target.type, target.name)
        ELSE None

deserialize_object(path) ==
    Bind(ByName(path),
         LAMBDA obj : IF obj # None THEN obj ELSE Positional(path))

\* ------------------------------------------------------- enum and flag names
\* A class name is the sequence of its pieces, so that name.endswith('s')
\* and name[:-1] are computed and not assumed: Qt.MouseButtons is
\* <<"MouseButton", "s">>.  A Python value is [cls, v]: its class and its
\* integer value.  A str is the sequence of its pieces: '' is <<>> and
\* 'Qt.LeftButton|Qt.RightButton' is
\* <<"Qt", ".", "LeftButton", "|", "Qt", ".", "RightButton">>.
NoClass == <<>>
IntClass == <<"int">>
Value(cls, v) == [cls |-> cls, v |-> v]

\* Qt.__dict__: the enum members PyQt4 declares in the Qt namespace (the
\* ones the events of the model use), in dictionary order.  MidButton and
\* MiddleButton name the same value; Dialog and AlignCenter have more than
\* one bit.
QtDict == <<
    [name |-> "NoButton",      klass |-> <<"MouseButton">>, value |-> 0],
    [name |-> "LeftButton",    klass |-> <<"MouseButton">>, value |-> 1],
    [name |-> "RightButton",   klass |-> <<"MouseButton">>, value |-> 2],
    [name |-> "MidButton",     klass |-> <<"MouseButton">>, value |-> 4],
    [name |-> "MiddleButton",  klass |-> <<"MouseButton">>, value |-> 4],
    [name |-> "XButton1",      klass |-> <<"MouseButton">>, value |-> 8],
    [name |-> "XButton2",      klass |-> <<"MouseButton">>, value |-> 16],
    [name |-> "NoModifier",    klass |-> <<"KeyboardModifier">>, value |-> 0],
    [name |-> "ShiftModifier", klass |-> <<"KeyboardModifier">>,
                               value |-> 33554432],
    [name |-> "ControlModifier", klass |-> <<"KeyboardModifier">>,
                               value |-> 67108864],
    [name |-> "AltModifier",   klass |-> <<"KeyboardModifier">>,
                               value |-> 134217728],
    [name |-> "AlignLeft",     klass |-> <<"AlignmentFlag">>, value |-> 1],
    [name |-> "AlignRight",    klass |-> <<"AlignmentFlag">>, value |-> 2],
    [name |-> "AlignHCenter",  klass |-> <<"AlignmentFlag">>, value |-> 4],
    [name |-> "AlignJustify",  klass |-> <<"AlignmentFlag">>, value |-> 8],
    [name |-> "AlignTop",      klass |-> <<"AlignmentFlag">>, value |-> 32],
    [name |-> "AlignBottom",   klass |-> <<"AlignmentFlag">>, value |-> 64],
    [name |-> "AlignVCenter",  klass |-> <<"AlignmentFlag">>, value |-> 128],
    [name |-> "AlignCenter",   klass |-> <<"AlignmentFlag">>, value |-> 132],
    [name |-> "Widget",        klass |-> <<"WindowType">>, value |-> 0],
    [name |-> "Window",        klass |-> <<"WindowType">>, value |-> 1],
    [name |-> "Dialog",        klass |-> <<"WindowType">>, value |-> 3],
    [name |-> "FramelessWindowHint", klass |-> <<"WindowType">>,
                               value |-> 2048],
    [name |-> "Key_A",         klass |-> <<"Key">>, value |-> 65],
    [name |-> "Key_Return",    klass |-> <<"Key">>, value |-> 16777220] >>

\* QEvent.__dict__: the members of QEvent.Type, with Qt's values.
QEventDict == <<
    [name |-> "MouseButtonPress",    klass |-> <<"Type">>, value |-> 2],
    [name |-> "MouseButtonRelease",  klass |-> <<"Type">>, value |-> 3],
    [name |-> "MouseButtonDblClick", klass |-> <<"Type">>, value |-> 4],
    [name |-> "MouseMove",           klass |-> <<"Type">>, value |-> 5],
    [name |-> "KeyPress",            klass |-> <<"Type">>, value |-> 6],
    [name |-> "KeyRelease",          klass |-> <<"Type">>, value |-> 7],
    [name |-> "FocusIn",             klass |-> <<"Type">>, value |-> 8],
    [name |-> "Enter",               klass |-> <<"Type">>, value |-> 10],
    [name |-> "Move",                klass |-> <<"Type">>, value |-> 13],
    [name |-> "Resize",              klass |-> <<"Type">>, value |-> 14],
    [name |-> "Close",               klass |-> <<"Type">>, value |-> 19],
    [name |-> "DragEnter",           klass |-> <<"Type">>, value |-> 60],
    [name |-> "DragMove",            klass |-> <<"Type">>, value |-> 61],
    [name |-> "DragLeave",           klass |-> <<"Type">>, value |-> 62],
    [name |-> "Drop",                klass |-> <<"Type">>, value |-> 63],
    [name |-> "User",                klass |-> <<"Type">>, value |-> 1000] >>

\* base.__dict__ of the two namespaces the Resolver reads.
Dict(base) == IF base = "Qt" THEN QtDict ELSE QEventDict

\* The QFlags classes of the Qt namespace and the enum each combines
\* (QFlags<Enum> in Qt): the first two are named as their enum plus 's',
\* the last two are not.
FlagsOf == [c \in {<<"MouseButton", "s">>, <<"KeyboardModifier", "s">>,
                   <<"Alignment">>, <<"WindowFlag", "s">>} |->
               IF c = <<"MouseButton", "s">> THEN <<"MouseButton">>
               ELSE IF c = <<"KeyboardModifier", "s">>
                    THEN <<"KeyboardModifier">>
               ELSE IF c = <<"Alignment">> THEN <<"AlignmentFlag">>
               ELSE <<"WindowType">>]

\* The classes that are attributes of base: getattr(base, name) finds them.
Classes(base) ==
    IF base = "Qt"
    THEN {QtDict[k].klass : k \in 1..Len(QtDict)} \cup DOMAIN FlagsOf
    ELSE {<<"Type">>}

\* value & mask, for a mask with a single bit.
BitSet(value, mask) == (value \div mask) % 2 = 1

_qenum_key(base, value, klass) ==
    LET k == IF klass # NoClass THEN klass ELSE value.cls
    IN  IF k = IntClass THEN <<>>
        ELSE LET found == SelectSeq(Dict(base), LAMBDA m :
                              m.klass = k /\ m.value = value.v)
             IN  IF found = <<>> THEN <<>>
                 ELSE <<base, ".", found[1].name>>

\* The while loop of _qflags_key: the keys of the set bits from mask up.
RECURSIVE FlagKeys(_, _, _, _)
FlagKeys(base, klass, value, mask) ==
    IF mask > value THEN <<>>
    ELSE (IF BitSet(value, mask)
          THEN <<_qenum_key(base, Value(klass, mask), klass)>>
          ELSE <<>>) \o FlagKeys(base, klass, value, 2 * mask)

\* '|'.join(filter(None, keys))
RECURSIVE Join(_)
Join(keys) ==
    IF keys = <<>> THEN <<>>
    ELSE LET rest == Join(Tail(keys))
         IN  IF Head(keys) = <<>> THEN rest
             ELSE IF rest = <<>> THEN Head(keys)
             ELSE Head(keys) \o <<"|">> \o rest

_qflags_key(base, value, klass) ==
    LET k0 == IF klass # NoClass THEN klass ELSE value.cls
    IN  IF k0 = IntClass THEN Ok(<<>>)
        ELSE IF k0[Len(k0)] = "s"
                /\ SubSeq(k0, 1, Len(k0) - 1) \notin Classes(base)
        THEN Raise("AttributeError")
        ELSE LET k == IF k0[Len(k0)] = "s"
                      THEN SubSeq(k0, 1, Len(k0) - 1) ELSE k0
             IN  Bind(FlagKeys(base, k, value.v, 1),
                      LAMBDA keys :
                        Ok(Join(IF keys = <<>> /\ value.v = 0
                                THEN <<_qenum_key(base, Value(k, 0), k)>>
                                ELSE keys)))

\* a | b on non-negative integers.
RECURSIVE BitOr(_, _)
BitOr(a, b) ==
    IF a = 0 THEN b
    ELSE IF b = 0 THEN a
    ELSE 2 * BitOr(a \div 2, b \div 2)
         + (IF a % 2 = 1 \/ b % 2 = 1 THEN 1 ELSE 0)

\* The pieces of a str between the '|' signs.
RECURSIVE Split(_)
Split(s) ==
    IF \A k \in 1..Len(s) : s[k] # "|" THEN <<s>>
    ELSE LET k == CHOOSE j \in 1..Len(s) :
                      s[j] = "|" /\ \A i \in 1..(j - 1) : s[i] # "|"
         IN  <<SubSeq(s, 1, k - 1)>> \o Split(SubSeq(s, k + 1, Len(s)))

\* eval() of one serialized flags argument, as deserialize_event evaluates
\* it: each 'Qt.<name>' is looked up in the Qt namespace and the values
\* are or-ed; a NameError or AttributeError when a piece is no such name.
RECURSIVE EvalOr(_)
EvalOr(parts) ==
    IF parts = <<>> THEN Ok(0)
    ELSE LET p == Head(parts)
             rest == EvalOr(Tail(parts))
             found == IF Len(p) = 3 /\ p[1] = "Qt" /\ p[2] = "."
                      THEN SelectSeq(QtDict, LAMBDA m : m.name = p[3])
                      ELSE <<>>
         IN  IF found = <<>> THEN Raise("NameError")
             ELSE IF rest.exc # "" THEN rest
             ELSE Ok(BitOr(found[1].value, rest.val))

EvalFlags(s) == IF s = <<>> THEN Raise("SyntaxError") ELSE EvalOr(Split(s))

\* The single-bit members an enum class declares, and the bitmasks made of
\* them.
RECURSIVE IsSingleBit(_)
IsSingleBit(n) == n = 1 \/ (n > 1 /\ n % 2 = 0 /\ IsSingleBit(n \div 2))

SingleBits(enum) ==
    {QtDict[k].value : k \in {j \in 1..Len(QtDict) :
        QtDict[j].klass = enum /\ IsSingleBit(QtDict[j].value)}}

RECURSIVE SetSum(_)
SetSum(S) == IF S = {} THEN 0
             ELSE LET x == CHOOSE y \in S : TRUE IN x + SetSum(S \ {x})

Masks(flags) == {SetSum(B) : B \in SUBSET SingleBits(FlagsOf[flags])}

NoFlags == [klass |-> NoClass, value |-> 0, res |-> Raise(""),
            called |-> FALSE]

\* ---------------------------------------------------------------- events
\* An event: its class, its kind (event.type(), a QEvent.Type value),
\* whether Qt flags it spontaneous, and the values its accessors return.
Event(cls, kind, key, modifiers, button, buttons) ==
    [cls |-> cls, kind |-> kind, spontaneous |-> FALSE, key |-> key,
     modifiers |-> modifiers, text |-> "a", isAutoRepeat |-> FALSE,
     count |-> 1, button |-> button, buttons |-> buttons]

\* getattr(event, attr)(): the value and its Python class.
Attr(event, attr) ==
    CASE attr = "pos" -> Value(<<"QPoint">>, 0)
      [] attr = "globalPos" -> Value(<<"QPoint">>, 0)
      [] attr = "button" -> Value(<<"MouseButton">>, event.button)
      [] attr = "buttons" -> Value(<<"MouseButton", "s">>, event.buttons)
      [] attr = "modifiers" ->
             Value(<<"KeyboardModifier", "s">>, event.modifiers)
      [] attr = "key" -> Value(IntClass, event.key)
      [] attr = "text" -> Value(<<"str">>, event.text)
      [] attr = "isAutoRepeat" -> Value(<<"bool">>, event.isAutoRepeat)
      [] attr = "count" -> Value(IntClass, event.count)

\* The classes whose instances are ints (PyQt's enum classes); a QFlags
\* value is not an int.
EnumClasses == {QtDict[k].klass : k \in 1..Len(QtDict)}

\* The Ellipsis object, which _serialize_value returns for a point or a
\* rectangle.
Ellipsis == <<"<Ellipsis>">>

\* QT_KEYS[value]: the name of a key code, a KeyError when Qt declares no
\* Key_ member of that value.
QT_KEYS(value) ==
    LET found == SelectSeq(QtDict, LAMBDA m :
                     m.klass = <<"Key">> /\ m.value = value)
    IN  IF found = <<>> THEN Raise("KeyError")
        ELSE Ok(<<"Qt", ".", found[1].name>>)

_serialize_value(value, attr) ==
    IF value.cls = IntClass
    THEN IF attr = "key" THEN QT_KEYS(value.v) ELSE Ok(<<ToString(value.v)>>)
    ELSE IF value.cls = <<"str">>
    THEN Ok(IF value.v = "" THEN <<>> ELSE <<value.v>>)
    ELSE IF value.cls = <<"bool">>
    THEN Ok(<<IF value.v THEN "True" ELSE "False">>)
    ELSE IF value.cls \in {<<"QPoint">>, <<"QPointF">>, <<"QRect">>,
                          <<"QRectF">>}
    THEN Ok(Ellipsis)
    ELSE Bind2(IF value.cls \in EnumClasses
               THEN _qenum_key("Qt", value, NoClass) ELSE <<>>,
               IF value.cls[Len(value.cls)] = "s"
               THEN _qflags_key("Qt", value, NoClass) ELSE Ok(<<>>),
               LAMBDA enum, flags :
                 IF enum # <<>> THEN Ok(enum)
                 ELSE IF flags.exc # "" \/ flags.val # <<>> THEN flags
                 ELSE Raise("ValueError"))

\* Q*Event attributes, ordered as the constructor takes them; () for a
\* class that is not listed.
EVENT_ATTRIBUTES(cls) ==
    IF cls = "QMouseEvent"
    THEN <<"pos", "globalPos", "button", "buttons", "modifiers">>
    ELSE IF cls = "QKeyEvent"
    THEN <<"key", "modifiers", "text", "isAutoRepeat", "count">>
    ELSE <<>>

\* The for loop of serialize_event: the arguments appended for attrs, a
\* ValueError skipping the attribute and any other exception ending the
\* loop.
RECURSIVE SerializeAttrs(_, _)
SerializeAttrs(event, attrs) ==
    IF attrs = <<>> THEN Ok(<<>>)
    ELSE Bind2(_serialize_value(Attr(event, Head(attrs)), Head(attrs)),
               SerializeAttrs(event, Tail(attrs)),
               LAMBDA here, rest :
                 IF here.exc \notin {"", "ValueError"} THEN Raise(here.exc)
                 ELSE IF rest.exc # "" THEN rest
                 ELSE IF here.exc = "ValueError" THEN rest
                 ELSE Ok(<<here.val>> \o rest.val))

serialize_event(event) ==
    Bind(SerializeAttrs(event, EVENT_ATTRIBUTES(event.cls)),
         LAMBDA args :
           IF args.exc # "" THEN Raise(args.exc)
           ELSE Ok(<<<<event.cls>>,
                     _qenum_key("QEvent", Value(<<"Type">>, event.kind),
                                NoClass)>> \o args.val))

getstate(obj, event) ==
    Bind2(serialize_object(obj), serialize_event(event),
          LAMBDA path, ev :
            IF path.exc # "" THEN Raise(path.exc)
            ELSE IF ev.exc # "" THEN Raise(ev.exc)
            ELSE Ok([path |-> path.val, event |-> ev.val]))

\* ----------------------------------------------------------- EventRecorder
\* EventRecorder.QEVENT_EVENTS: DragEnter, DragLeave, DragMove, Drop, Enter,
\* KeyPress, KeyRelease, MouseButtonDblClick, MouseButtonPress,
\* MouseButtonRelease, MouseMove, Move.
QEVENT_EVENTS == {60, 62, 61, 63, 10, 6, 7, 4, 2, 3, 5, 13}

\* EventRecorder.EventType[kind]: the name of a kind, a KeyError for a kind
\* QEvent declares no name for.
EventType(kind) ==
    LET found == SelectSeq(QEventDict, LAMBDA m : m.value = kind)
    IN  IF found = <<>> THEN Raise("KeyError") ELSE Ok(found[1].name)

\* A filter that takes every event for a system event.
NotSpontaneous_any(event) == FALSE

\* "if not event.spontaneous(): return False"
NotSpontaneous(event) == ~event.spontaneous

\* A recorder that also records Resize events.
is_skipped_resize(event) == event.kind \notin (QEVENT_EVENTS \cup {14})

\* "is_skipped = event.type() not in self.QEVENT_EVENTS"
is_skipped(event) == event.kind \notin QEVENT_EVENTS

\* What eventFilter(obj, event) does to the log and how the call ends:
\* "False" when it returns False, the exception class when it raises.
FilterOutcome(obj, event) ==
    IF NotSpontaneous(event) THEN [log |-> log, ret |-> "False"]
    ELSE Bind2(EventType(event.kind),
               IF is_skipped(event) THEN Raise("") ELSE getstate(obj, event),
               LAMBDA name, state :
                 IF name.exc # "" THEN [log |-> log, ret |-> name.exc]
                 ELSE IF is_skipped(event) THEN [log |-> log, ret |-> "False"]
                 ELSE IF state.exc # "" THEN [log |-> log, ret |-> state.exc]
                 ELSE [log |-> Append(log, state.val), ret |-> "False"])

NoFilterCall == [obj |-> None, event |-> Event("", 0, 0, 0, 0, 0),
                 ret |-> ""]

\* The state of a run in which main() records nothing.
InitIdleRecorder ==
    /\ log = <<>>
    /\ call = NoFilterCall
    /\ delivered = 0
    /\ pc = "idle"
    /\ file = <<>>

\* The state of a run in which nothing is replayed.
InitIdleReplay ==
    /\ scenario = <<>>
    /\ position = 0
    /\ sent = <<>>

\* ------------------------------------------------------------ application
NoCall == [obj |-> None, path |-> Raise(""), byName |-> None, res |-> None,
           roundTrip |-> FALSE, called |-> FALSE]

\* What a call of deserialize_object on the path made for obj leaves behind.
Resolution(obj, path, roundTrip) ==
    [obj |-> obj, path |-> path,
     byName |-> IF path.exc = "" THEN ByName(path.val) ELSE None,
     res |-> IF path.exc = "" THEN deserialize_object(path.val) ELSE None,
     roundTrip |-> roundTrip, called |-> TRUE]

\* The parents an object of class t can be given: a widget is a window
\* (no parent) or the child of a widget; any other object is the child of
\* qApp or of any object.
Parents(t) ==
    IF t \in WidgetTypes
    THEN {None} \cup {o \in Objects : type[o] \in WidgetTypes}
    ELSE Objects

\* The application constructs an object.
CreateObject(t, name, p) ==
    /\ resolved = NoCall
    /\ NumObj < MaxObj
    /\ p \in Parents(t)
    /\ LET obj == NumObj + 1
       IN  /\ type' = [o \in Objects \cup {obj} |->
                          IF o = obj THEN t ELSE type[o]]
           /\ parent' = [o \in Objects \cup {obj} |->
                          IF o = obj THEN p ELSE parent[o]]
           /\ objectName' = [o \in Objects \cup {obj} |->
                          IF o = obj THEN name ELSE objectName[o]]
           /\ children' = [o \in Objects \cup {obj} |->
                          IF o = obj THEN <<>>
                          ELSE IF o = p THEN Append(children[o], obj)
                          ELSE children[o]]
           /\ topLevelWidgets' = IF p = None
                                 THEN Append(topLevelWidgets, obj)
                                 ELSE topLevelWidgets
    /\ UNCHANGED <<FUZZY_MATCHING, resolved, flagsCall, recorderVars, replayVars>>

\* serialize_object(obj), then deserialize_object of the path it returned,
\* on the same tree.
RoundTrip(obj) ==
    /\ resolved = NoCall
    /\ obj \in Objects \ {qApp}
    /\ resolved' = Resolution(obj, serialize_object(obj), TRUE)
    /\ UNCHANGED <<treeVars, FUZZY_MATCHING, flagsCall, recorderVars, replayVars>>

\* deserialize_object of a path that was recorded when the tree differed
\* at one level: the path of obj with the index and the name of its
\* element lvl replaced.
Resolve(obj, lvl, index, name) ==
    /\ resolved = NoCall
    /\ obj \in Objects \ {qApp}
    /\ serialize_object(obj).exc = ""
    /\ \E path \in {serialize_object(obj).val} :
          /\ lvl \in 1..Len(path)
          /\ <<index, name>> # <<path[lvl].index, path[lvl].name>>
          /\ resolved' = Resolution(obj,
                 Ok([path EXCEPT ![lvl] =
                        PathElement(index, path[lvl].type, name)]), FALSE)
    /\ UNCHANGED <<treeVars, FUZZY_MATCHING, flagsCall, recorderVars, replayVars>>

\* The call returns to the application.
Return ==
    /\ resolved # NoCall
    /\ resolved' = NoCall
    /\ UNCHANGED <<treeVars, FUZZY_MATCHING, flagsCall, recorderVars, replayVars>>

InitTree ==
    /\ type = [o \in {qApp} |-> "QApplication"]
    /\ parent = [o \in {qApp} |-> None]
    /\ children = [o \in {qApp} |-> <<>>]
    /\ objectName = [o \in {qApp} |-> ""]
    /\ topLevelWidgets = <<>>

InitResolve ==
    /\ InitTree
    /\ FUZZY_MATCHING \in BOOLEAN
    /\ resolved = NoCall
    /\ flagsCall = NoFlags
    /\ InitIdleRecorder
    /\ InitIdleReplay

NextResolve ==
    \/ \E t \in Types, name \in Names, p \in Objects \cup {None} :
           CreateObject(t, name, p)
    \/ \E obj \in Objects : RoundTrip(obj)
    \/ \E obj \in Objects, lvl \in 1..MaxObj, index \in 0..(MaxObj - 1),
          name \in Names : Resolve(obj, lvl, index, name)
    \/ Return

SpecResolve == InitResolve /\ [][NextResolve]_vars

\* ------------------------------------------------------- object paths
RECURSIVE Depth(_)
Depth(obj) == IF parent[obj] = None THEN 1 ELSE 1 + Depth(parent[obj])

RECURSIVE Up(_, _)
Up(obj, n) == IF n = 0 THEN obj ELSE Up(parent[obj], n - 1)

\* obj is the one at position e.index among the objects of type e.type of
\* its container, and e's name (if any) is its name.
Selected(obj, e) ==
    LET container == IF parent[obj] = None THEN topLevelWidgets
                     ELSE children[parent[obj]]
        same == filtertype(e.type, container)
    IN  /\ e.index < Len(same)
        /\ same[e.index + 1] = obj
        /\ (e.name = "" \/ e.name = objectName[obj])

\* Every level of path selects the ancestor of obj at that level.
Matches(obj, path) ==
    /\ Depth(obj) = Len(path)
    /\ \A i \in 1..Len(path) : Selected(Up(obj, Len(path) - i), path[i])

\* C1: the path of an object of a window's tree resolves to that object,
\* in both matching modes and whatever the other objects are named.
C1_RoundTripAlways ==
    (resolved.roundTrip /\ resolved.path.exc = "") =>
        resolved.res = resolved.obj

\* C1, non-fuzzy and unnamed: in non-fuzzy mode, the path of an object of a window's tree
\* resolves to that object when the name lookup finds nothing (the object
\* has no name, or no descendant of qApp has its type and name).
C1_RoundTrip ==
    (resolved.roundTrip /\ resolved.path.exc = "" /\ ~FUZZY_MATCHING
     /\ resolved.byName = None) =>
        resolved.res = resolved.obj

\* A named object two levels down, second of its type among its siblings,
\* went through the round trip in non-fuzzy mode.
C1_Witness ==
    /\ resolved.roundTrip /\ resolved.path.exc = "" /\ ~FUZZY_MATCHING
    /\ resolved.byName = None
    /\ Len(resolved.path.val) = 2
    /\ resolved.path.val[2].index = 1
    /\ resolved.path.val[2].name = "a"
    /\ resolved.res = resolved.obj

\* C10: in non-fuzzy mode, when the name lookup finds nothing,
\* deserialize_object returns the object that every level of the path
\* selects by type and index (and whose names the path accepts), and None
\* when there is no such object.
C10_IndexSelection ==
    (resolved.called /\ resolved.path.exc = "" /\ ~FUZZY_MATCHING
     /\ resolved.byName = None) =>
        /\ resolved.res # None => Matches(resolved.res, resolved.path.val)
        /\ resolved.res = None =>
               \A obj \in Objects : ~Matches(obj, resolved.path.val)

\* Three windows of one type, the first and the third named differently:
\* a path whose root index is 1 resolved to the second.
C10_Witness ==
    /\ resolved.called /\ resolved.path.exc = "" /\ ~FUZZY_MATCHING
    /\ resolved.byName = None
    /\ Len(filtertype(resolved.path.val[1].type, topLevelWidgets)) = 3
    /\ resolved.path.val[1].index = 1
    /\ objectName[topLevelWidgets[1]] # objectName[topLevelWidgets[3]]
    /\ resolved.res = filtertype(resolved.path.val[1].type,
                                 topLevelWidgets)[2]

\* C11: deserialize_object returns None or an object of the tree whose
\* type is the type of the last element of the path, in both matching
\* modes; a path whose index is out of range at some level selects nothing
\* at that level.
C11_MissesAreValues ==
    (resolved.called /\ resolved.path.exc = "") =>
        LET path == resolved.path.val
        IN  /\ resolved.res \in (Objects \ {qApp}) \cup {None}
            /\ resolved.res # None =>
                   type[resolved.res] = path[Len(path)].type
            /\ (~FUZZY_MATCHING /\ resolved.byName = None
                /\ path[1].index >=
                       Len(filtertype(path[1].type, topLevelWidgets))) =>
                   resolved.res = None

\* Resolver._qflags_key(Qt, value) is called on a flags value.
QflagsKey(flags, mask) ==
    /\ flagsCall = NoFlags
    /\ flagsCall' = [klass |-> flags, value |-> mask,
                     res |-> _qflags_key("Qt", Value(flags, mask), NoClass),
                     called |-> TRUE]
    /\ UNCHANGED <<treeVars, FUZZY_MATCHING, resolved, recorderVars, replayVars>>

FlagsReturn ==
    /\ flagsCall # NoFlags
    /\ flagsCall' = NoFlags
    /\ UNCHANGED <<treeVars, FUZZY_MATCHING, resolved, recorderVars, replayVars>>

InitFlags ==
    /\ InitTree
    /\ FUZZY_MATCHING = FALSE
    /\ resolved = NoCall
    /\ flagsCall = NoFlags
    /\ InitIdleRecorder
    /\ InitIdleReplay

NextFlags ==
    \/ \E flags \in DOMAIN FlagsOf : \E mask \in Masks(flags) :
           QflagsKey(flags, mask)
    \/ FlagsReturn

SpecFlags == InitFlags /\ [][NextFlags]_vars

\* C8: _qflags_key names exactly the set bits of a mask of declared
\* single-bit members, in ascending significance, and evaluating the names
\* gives the mask back.
C8_FlagRoundTrip ==
    flagsCall.called =>
        /\ flagsCall.res.exc = ""
        /\ (flagsCall.value # 0 =>
              /\ flagsCall.res.val # <<>>
              /\ LET parts == Split(flagsCall.res.val)
                 IN  \A k \in 1..Len(parts) :
                        /\ EvalOr(<<parts[k]>>).exc = ""
                        /\ EvalOr(<<parts[k]>>).val \in
                               SingleBits(FlagsOf[flagsCall.klass])
                        /\ k > 1 => EvalOr(<<parts[k - 1]>>).val
                                    < EvalOr(<<parts[k]>>).val)
        /\ EvalFlags(flagsCall.res.val).exc = ""
        /\ EvalFlags(flagsCall.res.val).val = flagsCall.value

\* ------------------------------------------------------------- recording
\* The events of the model: key presses of a key Qt names (Key_A) and of
\* one it does not (1044), without modifiers and with Shift+Control; mouse
\* presses of a button Qt names (LeftButton) and of one it does not (32),
\* with buttons Left|Right and with only an unnamed bit; an Enter event (a
\* plain QEvent), a Resize event, and an event of a kind QEvent declares no
\* name for (1001).
KeyEvents ==
    {Event("QKeyEvent", 6, k, m, 0, 0) : k \in {65, 1044},
                                           m \in {0, 100663296}}
MouseEvents ==
    {Event("QMouseEvent", 2, 0, 0, b, bs) : b \in {1, 32}, bs \in {3, 32}}
OtherEvents ==
    {Event("QEvent", 10, 0, 0, 0, 0), Event("QResizeEvent", 14, 0, 0, 0, 0),
     Event("QEvent", 1001, 0, 0, 0, 0)}
Events == KeyEvents \cup MouseEvents \cup OtherEvents

\* EventRecorder.eventFilter(obj, event), called by the dispatcher.  An
\* exception the filter raises is printed by PyQt4 and the event loop goes
\* on.
eventFilter(obj, event) ==
    \E out \in {FilterOutcome(obj, event)} :
        /\ log' = out.log
        /\ call' = [obj |-> obj, event |-> event, ret |-> out.ret]

\* The window system delivers an event to obj: Qt flags it spontaneous.
SystemEvent(obj, ev) ==
    /\ pc = "main"
    /\ delivered < MaxEvents
    /\ eventFilter(obj, [ev EXCEPT !.spontaneous = TRUE])
    /\ delivered' = delivered + 1
    /\ UNCHANGED <<treeVars, FUZZY_MATCHING, resolved, flagsCall, replayVars,
                   pc, file>>

\* Application code (or Resolver.setstate) sends an event to obj with
\* qApp.sendEvent, which clears the spontaneous flag.
SendEvent(obj, ev) ==
    /\ pc = "main"
    /\ delivered < MaxEvents
    /\ eventFilter(obj, [ev EXCEPT !.spontaneous = FALSE])
    /\ delivered' = delivered + 1
    /\ UNCHANGED <<treeVars, FUZZY_MATCHING, resolved, flagsCall, replayVars,
                   pc, file>>

\* args.main() returns.
MainReturns ==
    /\ pc = "main"
    /\ pc' = "returned"
    /\ UNCHANGED <<treeVars, FUZZY_MATCHING, resolved, flagsCall, replayVars,
                   log, call,
                   delivered, file>>

\* args.main() raises (an entry point that ends in sys.exit): main() ends
\* with it.
MainRaises ==
    /\ pc = "main"
    /\ pc' = "raised"
    /\ UNCHANGED <<treeVars, FUZZY_MATCHING, resolved, flagsCall, replayVars,
                   log, call,
                   delivered, file>>

\* recorder.dump(args.record)
dump ==
    /\ pc = "returned"
    /\ file' = Append(file, log)
    /\ pc' = "done"
    /\ UNCHANGED <<treeVars, FUZZY_MATCHING, resolved, flagsCall, replayVars,
                   log, call,
                   delivered>>

\* The application of the recording runs: a window (1) with a named child
\* widget (2), and an object (3) whose parent is qApp.
InitRecordTree ==
    /\ type = (0 :> "QApplication" @@ 1 :> "QWidget" @@ 2 :> "QWidget"
               @@ 3 :> "QObject")
    /\ parent = (0 :> None @@ 1 :> None @@ 2 :> 1 @@ 3 :> qApp)
    /\ children = (0 :> <<3>> @@ 1 :> <<2>> @@ 2 :> <<>> @@ 3 :> <<>>)
    /\ objectName = (0 :> "" @@ 1 :> "" @@ 2 :> "a" @@ 3 :> "")
    /\ topLevelWidgets = <<1>>

Init ==
    /\ InitRecordTree
    /\ FUZZY_MATCHING \in BOOLEAN
    /\ resolved = NoCall
    /\ flagsCall = NoFlags
    /\ log = <<>>
    /\ call = NoFilterCall
    /\ delivered = 0
    /\ pc = "main"
    /\ file = <<>>
    /\ InitIdleReplay

Next ==
    \/ \E obj \in Objects \ {qApp}, ev \in Events : SystemEvent(obj, ev)
    \/ \E obj \in Objects \ {qApp}, ev \in Events : SendEvent(obj, ev)
    \/ MainReturns
    \/ MainRaises
    \/ dump

Spec == Init /\ [][Next]_vars

\* C2: an event whose kind is not in QEVENT_EVENTS leaves the log as it was
\* before the eventFilter call.
C2_AllowList ==
    [][(delivered' = delivered + 1
        /\ call'.event.kind \notin QEVENT_EVENTS) => log' = log]_vars

\* A spontaneous Resize event went through the filter after an entry was
\* logged.
C2_Witness ==
    /\ call.ret = "False" /\ call.event.spontaneous
    /\ call.event.kind = 14
    /\ log # <<>>

\* C3: the log changes only by the record of a spontaneous event of an
\* allowed kind being appended; an event that is not spontaneous (one sent
\* with sendEvent) never changes it.
C3_OnlySpontaneous ==
    [][log' # log =>
         /\ delivered' = delivered + 1
         /\ call'.event.spontaneous
         /\ call'.event.kind \in QEVENT_EVENTS
         /\ Len(log') = Len(log) + 1
         /\ log'[Len(log')].event[2] =
                <<"QEvent", ".", EventType(call'.event.kind).val>>]_vars

\* An event of an allowed kind sent with sendEvent to a widget of the
\* window went through the filter after an entry was logged.
C3_Witness ==
    /\ call.ret = "False" /\ ~call.event.spontaneous
    /\ call.event.kind \in QEVENT_EVENTS
    /\ serialize_object(call.obj).exc = ""
    /\ delivered = 2 /\ Len(log) = 1

\* C4: every eventFilter call returns False.
C4_NeverConsumes == call.ret \in {"", "False"}

\* The kind has no name in EventType, or the event is accepted and
\* getstate raises.
SerializationFails(obj, event) ==
    \/ EventType(event.kind).exc # ""
    \/ (~is_skipped(event) /\ getstate(obj, event).exc # "")

\* C5: when serializing a spontaneous event or its target fails,
\* eventFilter raises nothing: it returns False and the recording goes on.
C5_BadEventNoAbort ==
    (call.ret # "" /\ call.event.spontaneous
     /\ SerializationFails(call.obj, call.event)) =>
        (call.ret = "False" /\ pc \in {"main", "returned", "done"})

\* The results of _serialize_value for the listed attributes of an event,
\* in constructor order.
AttrResults(event) ==
    [k \in 1..Len(EVENT_ATTRIBUTES(event.cls)) |->
        _serialize_value(Attr(event, EVENT_ATTRIBUTES(event.cls)[k]),
                         EVENT_ATTRIBUTES(event.cls)[k])]

RECURSIVE Vals(_)
Vals(results) ==
    IF results = <<>> THEN <<>>
    ELSE (IF Head(results).exc = "" THEN <<Head(results).val>> ELSE <<>>)
         \o Vals(Tail(results))

\* The record of an event without the attributes that fail to serialize.
DegradedRecord(event) ==
    <<<<event.cls>>, <<"QEvent", ".", EventType(event.kind).val>>>>
    \o Vals(AttrResults(event))

\* C6: an accepted event with exactly one attribute that fails to
\* serialize, or of a class EVENT_ATTRIBUTES does not list, is logged, as
\* the record without the failing attribute (without any attribute for an
\* unlisted class).
C6_Degraded ==
    (call.ret # "" /\ call.event.spontaneous /\ ~is_skipped(call.event)
     /\ serialize_object(call.obj).exc = ""
     /\ (Cardinality({k \in DOMAIN AttrResults(call.event) :
                         AttrResults(call.event)[k].exc # ""}) = 1
         \/ EVENT_ATTRIBUTES(call.event.cls) = <<>>)) =>
        /\ call.ret = "False"
        /\ log # <<>>
        /\ log[Len(log)].event = DegradedRecord(call.event)

\* C7: the log grows by exactly the record of each accepted event, in
\* delivery order, and changes in no other way; the scenario file is
\* written once, with the log, after args.main() has returned.
C7_AppendOnly ==
    /\ [][delivered' = delivered + 1 =>
            IF call'.event.spontaneous /\ call'.event.kind \in QEVENT_EVENTS
            THEN log' = Append(log, getstate(call'.obj, call'.event).val)
            ELSE log' = log]_vars
    /\ [][delivered' = delivered => log' = log]_vars
    /\ [][file' # file =>
            (pc = "returned" /\ file = <<>> /\ file' = <<log>>)]_vars

\* ----------------------------------------------------------------- replay
\* deserialize_event(event): a plain QEvent is built from its kind; for any
\* other class the arguments are joined and the text is passed to eval(),
\* where the kind name 'QEvent.<kind>' is not a name of the module.
deserialize_event(event) ==
    IF event[1] = <<"QEvent">>
    THEN IF Len(event) # 2 THEN Raise("AssertionError")
         ELSE IF event[2] = <<>> THEN Raise("SyntaxError")
         ELSE Bind(SelectSeq(QEventDict, LAMBDA m : m.name = event[2][3]),
                   LAMBDA found :
                     IF found = <<>> THEN Raise("AttributeError")
                     ELSE Ok(Event("QEvent", found[1].value, 0, 0, 0, 0)))
    ELSE IF \E k \in 2..Len(event) : event[k] = Ellipsis
    THEN Raise("TypeError")
    ELSE IF event[2] = <<>> THEN Raise("SyntaxError")
    ELSE Raise("NameError")

\* Resolver.setstate(qApp, obj, event) for the next entry of the scenario.
\* deserialize_object and deserialize_event are evaluated, then
\* qApp.sendEvent is called with what they returned.  With None for the
\* receiver the call is outside Qt's contract: PyQt raises, or Qt reads
\* through the null receiver and the process dies, or the call returns.
setstate ==
    /\ pc = "replay"
    /\ position < Len(scenario)
    /\ \E entry \in {scenario[position + 1]} :
       \E obj \in {deserialize_object(entry.path)} :
       \E ev \in {deserialize_event(entry.event)} :
          IF ev.exc # ""
          THEN /\ pc' = "raised"
               /\ UNCHANGED <<position, sent>>
          ELSE /\ sent' = Append(sent, [receiver |-> obj, event |-> ev.val])
               /\ IF obj = None
                  THEN \/ pc' = "raised" /\ UNCHANGED position
                       \/ pc' = "crashed" /\ UNCHANGED position
                       \/ pc' = "replay" /\ position' = position + 1
                  ELSE pc' = "replay" /\ position' = position + 1
    /\ UNCHANGED <<treeVars, FUZZY_MATCHING, resolved, flagsCall, log, call,
                   delivered, file, scenario>>

\* The paths of a recorded scenario: the window, its child, and two paths
\* of objects the application no longer has (a second window, a second
\* child widget).
ReplayPaths ==
    {<<PathElement(0, "QWidget", "")>>,
     <<PathElement(0, "QWidget", ""), PathElement(0, "QWidget", "a")>>,
     <<PathElement(1, "QWidget", "")>>,
     <<PathElement(0, "QWidget", ""), PathElement(1, "QWidget", "")>>}

\* The records of an Enter event, a key press and a mouse press.
ReplayRecords ==
    {serialize_event(Event("QEvent", 10, 0, 0, 0, 0)).val,
     serialize_event(Event("QKeyEvent", 6, 65, 0, 0, 0)).val,
     serialize_event(Event("QMouseEvent", 2, 0, 0, 1, 3)).val}

RECURSIVE SeqsUpTo(_, _)
SeqsUpTo(S, n) ==
    IF n = 0 THEN {<<>>}
    ELSE SeqsUpTo(S, n - 1)
         \cup {Append(q, x) : q \in SeqsUpTo(S, n - 1), x \in S}

InitReplay ==
    /\ InitRecordTree
    /\ FUZZY_MATCHING \in BOOLEAN
    /\ resolved = NoCall
    /\ flagsCall = NoFlags
    /\ log = <<>>
    /\ call = NoFilterCall
    /\ delivered = 0
    /\ file = <<>>
    /\ pc = "replay"
    /\ scenario \in SeqsUpTo([path : ReplayPaths, event : ReplayRecords],
                             MaxScenario)
    /\ position = 0
    /\ sent = <<>>

NextReplay == setstate

SpecReplay == InitReplay /\ [][NextReplay]_vars

\* C9: replaying an entry whose target deserialize_object does not find
\* sends nothing, raises nothing, and the replay goes on with the next
\* entry.
C9_SkipUnresolved ==
    [][(position < Len(scenario)
        /\ deserialize_object(scenario[position + 1].path) = None) =>
           (sent' = sent /\ pc' = "replay" /\ position' = position + 1)]_vars

====
